---------------------------- MODULE Spec2Model ----------------------------
(***************************************************************************)
(* Terra Forest Monitor: data-source resolution, fallback and TTL caching  *)
(* of the client data services (EnhancedForestDataService,                 *)
(* ServerSideDataService), the ApiConfigManager and the Cloudflare Worker. *)
(*                                                                         *)
(* Time is counted in minutes (the source counts milliseconds).  A record  *)
(* built by a parser of an upstream payload has origin "live"; a record    *)
(* built by a mock generator has origin "mock".                            *)
(***************************************************************************)
EXTENDS Integers, Sequences, FiniteSets, TLC

VARIABLES
    now,        \* Date.now(), in minutes
    config,     \* ApiConfigManager: apiKeys (presence) and the noMock flag
    storage,    \* localStorage: forest-explorer-api-keys, forest-explorer-no-mock
    cacheE,     \* EnhancedForestDataService.cache : key -> {data, timestamp}
    cacheS,     \* ServerSideDataService.cache     : key -> {data, timestamp}
    last,       \* the outcome of the most recent service operation
    written,    \* history: per cache key, the value and time of the latest write
    worker,     \* the Worker: its cache, the handler in progress, its last response
    calls       \* number of service operations called so far

vars == <<now, config, storage, cacheE, cacheS, last, written, worker, calls>>

-----------------------------------------------------------------------------
(* Bounds of the model *)

MaxTime == 20
TickMinutes == 10

MaxCalls == 2

(* CACHE_DURATIONS (apiConfig), in minutes *)
SATELLITE_DATA == 30
FIRE_DATA == 15
WEATHER_DATA == 10
FOREST_DATA == 1440
SPECIES_DATA == 1440

-----------------------------------------------------------------------------
(* Records *)

Alert(type, timestamp, origin) ==
    [type |-> type, timestamp |-> timestamp, origin |-> origin]

RECURSIVE Repeat(_, _)
Repeat(x, n) == IF n <= 0 THEN <<>> ELSE <<x>> \o Repeat(x, n - 1)

Min(a, b) == IF a < b THEN a ELSE b

(* Array.prototype.slice(0, n) *)
Slice(s, n) == SubSeq(s, 1, Min(Len(s), n))

-----------------------------------------------------------------------------
(* The TTL cache of the services: a Map from key to {data, timestamp}.     *)
(* getCachedData answers [hit, data]; hit = FALSE stands for null.         *)

Miss == [hit |-> FALSE, data |-> <<>>]

(* a variant that still answers an entry at the instant its duration ends *)
getCachedData_Inclusive(cache, key, duration, t) ==
    IF key \in DOMAIN cache /\ t - cache[key].timestamp <= duration
    THEN [hit |-> TRUE, data |-> cache[key].data]
    ELSE Miss

getCachedData(cache, key, duration, t) ==
    IF key \in DOMAIN cache /\ t - cache[key].timestamp < duration
    THEN [hit |-> TRUE, data |-> cache[key].data]
    ELSE Miss

(* the duration parameter is not used by the source *)
setCachedData(cache, key, data, duration, t) ==
    [k \in DOMAIN cache \cup {key} |->
        IF k = key THEN [data |-> data, timestamp |-> t] ELSE cache[k]]

EmptyCache == [k \in {} |-> [data |-> <<>>, timestamp |-> 0]]


-----------------------------------------------------------------------------
(* Alert lists *)

RECURSIVE InsertByTimestamp(_, _)
InsertByTimestamp(sorted, x) ==
    IF sorted = <<>> THEN <<x>>
    ELSE IF Head(sorted).timestamp >= x.timestamp
         THEN <<Head(sorted)>> \o InsertByTimestamp(Tail(sorted), x)
         ELSE <<x>> \o sorted

(* alerts.sort((a, b) => new Date(b.timestamp) - new Date(a.timestamp)):   *)
(* a stable sort, newest first                                             *)
RECURSIVE SortByTimestampDesc(_)
SortByTimestampDesc(alerts) ==
    IF alerts = <<>> THEN <<>>
    ELSE InsertByTimestamp(SortByTimestampDesc(SubSeq(alerts, 1, Len(alerts) - 1)),
                           alerts[Len(alerts)])

MAX_ALERTS == 25

(* a variant that truncates without sorting *)
SortAndLimit_NoSort(alerts) == Slice(alerts, MAX_ALERTS)

(* .sort(...).slice(0, 25) *)
SortAndLimit(alerts) == Slice(SortByTimestampDesc(alerts), MAX_ALERTS)

LiveCount(alerts) == Cardinality({i \in 1..Len(alerts) : alerts[i].origin = "live"})

HasMock(alerts) == \E i \in 1..Len(alerts) : alerts[i].origin = "mock"

(* generated biodiversity / weather alerts *)
HasGenerated(alerts) ==
    \E i \in 1..Len(alerts) :
        alerts[i].type \in {"biodiversity", "weather"} /\ alerts[i].origin = "mock"

IsSortedDesc(alerts) ==
    \A i \in 1..(Len(alerts) - 1) : alerts[i].timestamp >= alerts[i + 1].timestamp

(* Mock generators; t is Date.now() *)
Enhanced_getMockFireAlerts(t) ==
    <<Alert("fire", t, "mock"), Alert("fire", t - 60, "mock")>>

Enhanced_getMockDeforestationAlerts(t) ==
    <<Alert("deforestation", t - 120, "mock"), Alert("deforestation", t - 180, "mock")>>

Enhanced_getMockBiodiversityAlerts(t) ==
    <<Alert("biodiversity", t - 240, "mock"), Alert("biodiversity", t - 300, "mock")>>

MockDataService_getForestAlerts(t) ==
    <<Alert("fire", t - 120, "mock"), Alert("deforestation", t - 240, "mock"),
      Alert("fire", t - 360, "mock"), Alert("biodiversity", t - 720, "mock"),
      Alert("weather", t - 1080, "mock")>>

Server_getMockForestAlerts(t) ==
    <<Alert("fire", t, "mock"), Alert("deforestation", t - 120, "mock")>>

Server_getMockBiodiversityAlerts(t) == <<Alert("biodiversity", t - 240, "mock")>>

Server_getMockDeforestationAlerts(t) ==
    <<Alert("deforestation", t - 120, "mock"), Alert("deforestation", t - 180, "mock")>>

Worker_generateMockFireAlerts(t) ==
    <<Alert("fire", t, "mock"), Alert("fire", t - 60, "mock")>>

Worker_generateMockDeforestationAlerts(t) ==
    <<Alert("deforestation", t - 120, "mock"), Alert("deforestation", t - 180, "mock")>>

(* The duration each cache key is read and written with, from the call     *)
(* sites of ServerSideDataService.                                        *)
ServerDuration(key) ==
    CASE key = "forest_regions_server" -> FOREST_DATA
      [] key = "forest_alerts_server"  -> FIRE_DATA
      [] key = "deforestation_server"  -> FIRE_DATA
      [] key = "biodiversity_server"   -> SPECIES_DATA
      [] key = "weather_server"        -> WEATHER_DATA

(* EnhancedForestDataService reads and writes every key with the default   *)
(* duration of getCachedData / setCachedData.                              *)
EnhancedDuration(key) == FOREST_DATA

NoHistory == [k \in {} |-> [data |-> <<>>, at |-> 0]]

Record(hist, key, data, t) ==
    [k \in DOMAIN hist \cup {key} |->
        IF k = key THEN [data |-> data, at |-> t] ELSE hist[k]]

-----------------------------------------------------------------------------
(* Upstream payloads and parsers.  A FIRMS CSV payload is its number of    *)
(* data rows; a GLAD payload is the list of the dates of its alerts.       *)

FireRowCounts == {0, 26}

GladPayloads == {<<>>, <<-30, 2, -30, 2, -30, 2>>}

(* EnhancedForestDataService.parseFireCsvData: at most 20 rows, stamped now *)
Enhanced_parseFireCsvData(rows, t) == Repeat(Alert("fire", t, "live"), Min(rows, 20))

(* worker.ts parseFireCsvData: at most 50 rows *)
Worker_parseFireCsvData(rows, t) == Repeat(Alert("fire", t, "live"), Min(rows, 50))

(* worker.ts parseGladAlertsData: data.data.slice(0, 25), timestamp: alert.date *)
Worker_parseGladAlertsData(dates) ==
    [i \in 1..Min(Len(dates), 25) |-> Alert("deforestation", dates[i], "live")]

(* What fetch(...).then(r => r.json()) of a Worker endpoint yields: a       *)
(* rejection (network error, timeout, body that is not JSON) or the body    *)
(* {success, data, source, error?} the Worker's handler builds.             *)
Reject == [kind |-> "reject", success |-> FALSE, error |-> TRUE, data |-> <<>>,
           source |-> "none"]

Json(success, error, data, source) ==
    [kind |-> "json", success |-> success, error |-> error, data |-> data,
     source |-> source]

(* handleFireAlerts: live data, "mock" without a key (cached by the Worker *)
(* under region/days, so also answered to a later no_mock=1 request),      *)
(* "mock-fallback" with an error message when FIRMS fails, success:false    *)
(* under no_mock=1 or on an internal error                                  *)
WorkerFireResponses(noMockParam, t) ==
    {Reject, Json(FALSE, TRUE, <<>>, "none")}
    \cup {Json(TRUE, FALSE, Worker_parseFireCsvData(n, t), "nasa-firms") : n \in FireRowCounts}
    \cup {Json(TRUE, FALSE, Worker_generateMockFireAlerts(t), "mock")}
    \cup (IF noMockParam THEN {}
          ELSE {Json(TRUE, TRUE, Worker_generateMockFireAlerts(t), "mock-fallback")})

(* handleDeforestationAlerts: live data, or "mock-fallback" with an error   *)
(* message, both cached by the Worker; success:false under no_mock=1 or on  *)
(* an internal error                                                        *)
WorkerDeforestationResponses(noMockParam, t) ==
    {Reject, Json(FALSE, TRUE, <<>>, "none")}
    \cup {Json(TRUE, FALSE, Worker_parseGladAlertsData(d), "global-forest-watch") : d \in GladPayloads}
    \cup {Json(TRUE, TRUE, Worker_generateMockDeforestationAlerts(t), "mock-fallback")}

(* A direct call of NASA FIRMS from the browser: it fails (network error,   *)
(* CORS, every dataset not ok) or answers a CSV payload.                    *)
DirectFireOutcomes == {[ok |-> FALSE, rows |-> 0]} \cup {[ok |-> TRUE, rows |-> n] : n \in FireRowCounts}

Attempt(category, route, ok) == [category |-> category, route |-> route, ok |-> ok]

-----------------------------------------------------------------------------
(* ServerSideDataService *)

Result(outcome, data, cache, attempts, path, live, age) ==
    [outcome |-> outcome, data |-> data, cache |-> cache, attempts |-> attempts,
     path |-> path, live |-> live, age |-> age]

Age(cache, key, t) == t - cache[key].timestamp

Server_getDeforestationAlerts(cache, noMock, t, resp) ==
    LET key == "deforestation_server"
        cached == getCachedData(cache, key, FIRE_DATA, t)
    IN  IF cached.hit
        THEN Result("return", cached.data, cache, <<>>, "cache",
                    LiveCount(cached.data), Age(cache, key, t))
        ELSE IF resp.kind = "json" /\ resp.success
        THEN Result("return", resp.data,
                    setCachedData(cache, key, resp.data, FIRE_DATA, t),
                    <<Attempt("deforestation", "Proxy", TRUE)>>, "fresh",
                    LiveCount(resp.data), 0)
        ELSE IF noMock
        THEN Result("throw", <<>>, cache,
                    <<Attempt("deforestation", "Proxy", FALSE)>>, "error", 0, 0)
        ELSE Result("return", Server_getMockDeforestationAlerts(t), cache,
                    <<Attempt("deforestation", "Proxy", FALSE),
                      Attempt("deforestation", "Mock", TRUE)>>, "fallback", 0, 0)

(* the result of one settled request of getForestAlerts *)
Usable(resp) == resp.kind = "json" /\ ~resp.error /\ resp.success

(* if (!apiConfigManager.isNoMockEnabled()) alerts.push(...getMockBiodiversityAlerts()) *)
Server_AppendBiodiversity(alerts, noMock, t) ==
    IF ~noMock THEN alerts \o Server_getMockBiodiversityAlerts(t) ELSE alerts

Server_getForestAlerts(cache, noMock, t, fireResp, defResp) ==
    LET key == "forest_alerts_server"
        cached == getCachedData(cache, key, FIRE_DATA, t)
        fire == IF Usable(fireResp) THEN fireResp.data ELSE <<>>
        defo == IF Usable(defResp) THEN defResp.data ELSE <<>>
        alerts == fire \o defo
        tried == <<Attempt("fire", "Proxy", Usable(fireResp)),
                   Attempt("deforestation", "Proxy", Usable(defResp))>>
        sortedAlerts == SortAndLimit(Server_AppendBiodiversity(alerts, noMock, t))
    IN  IF cached.hit
        THEN Result("return", cached.data, cache, <<>>, "cache",
                    LiveCount(cached.data), Age(cache, key, t))
        ELSE IF alerts = <<>>
        THEN IF noMock
             THEN Result("return", <<>>, cache, tried, "empty", 0, 0)
             ELSE Result("return", Server_getMockForestAlerts(t), cache,
                         tried \o <<Attempt("fire", "Mock", TRUE),
                                    Attempt("deforestation", "Mock", TRUE)>>,
                         "fallback", 0, 0)
        ELSE Result("return", sortedAlerts,
                    setCachedData(cache, key, sortedAlerts, FIRE_DATA, t),
                    tried, "fresh", LiveCount(alerts), 0)

-----------------------------------------------------------------------------
(* EnhancedForestDataService.getForestAlerts, in a browser context          *)

EResult(outcome, data, cE, cS, attempts, path, live, age) ==
    [outcome |-> outcome, data |-> data, cacheE |-> cE, cacheS |-> cS,
     attempts |-> attempts, path |-> path, live |-> live, age |-> age]

(* getLiveFireAlerts followed by its catch in getForestAlerts; thrown tells *)
(* that the error is rethrown to the outer catch                            *)
Enhanced_FireStep(cfg, t, direct) ==
    IF cfg.nasa_firms
    THEN IF direct.ok
         THEN [thrown |-> FALSE, alerts |-> Enhanced_parseFireCsvData(direct.rows, t),
               attempts |-> <<Attempt("fire", "Direct", TRUE)>>]
         ELSE IF cfg.noMock
         THEN [thrown |-> TRUE, alerts |-> <<>>,
               attempts |-> <<Attempt("fire", "Direct", FALSE)>>]
         ELSE [thrown |-> FALSE, alerts |-> Enhanced_getMockFireAlerts(t),
               attempts |-> <<Attempt("fire", "Direct", FALSE),
                              Attempt("fire", "Mock", TRUE)>>]
    ELSE IF cfg.noMock
         THEN [thrown |-> FALSE, alerts |-> <<>>, attempts |-> <<>>]
         ELSE [thrown |-> FALSE, alerts |-> Enhanced_getMockFireAlerts(t),
               attempts |-> <<Attempt("fire", "Mock", TRUE)>>]

(* if (!noMock && alerts.length === 0) alerts.push(...getMockBiodiversityAlerts()) *)
Enhanced_AppendBiodiversity(alerts, noMock, t) ==
    IF ~noMock /\ alerts = <<>>
    THEN alerts \o Enhanced_getMockBiodiversityAlerts(t)
    ELSE alerts

(* the outer catch of getForestAlerts *)
Enhanced_AlertsCatch(cE, cS, cfg, t, attempts) ==
    IF cfg.noMock
    THEN EResult("return", <<>>, cE, cS, attempts, "catch-empty", 0, 0)
    ELSE EResult("return", MockDataService_getForestAlerts(t), cE, cS,
                 attempts \o <<Attempt("alerts", "Mock", TRUE)>>, "catch-mock", 0, 0)

Enhanced_BrowserAlerts(cE, cS, cfg, t, direct, defResp, before) ==
    LET key == "forest_alerts_combined"
        cached == getCachedData(cE, key, EnhancedDuration(key), t)
        fire == Enhanced_FireStep(cfg, t, direct)
        defo == Server_getDeforestationAlerts(cS, cfg.noMock, t, defResp)
        tried == before \o fire.attempts \o defo.attempts
        defoAlerts == IF defo.outcome = "return" THEN defo.data
                      ELSE Enhanced_getMockDeforestationAlerts(t)
        defoTried == IF defo.outcome = "return" THEN tried
                     ELSE tried \o <<Attempt("deforestation", "Mock", TRUE)>>
        merged == fire.alerts \o defoAlerts
        sortedAlerts == SortAndLimit(Enhanced_AppendBiodiversity(merged, cfg.noMock, t))
    IN  IF cached.hit
        THEN EResult("return", cached.data, cE, cS, before, "cache",
                     LiveCount(cached.data), Age(cE, key, t))
        ELSE IF fire.thrown
        THEN Enhanced_AlertsCatch(cE, cS, cfg, t, before \o fire.attempts)
        ELSE IF defo.outcome = "throw" /\ cfg.noMock
        THEN Enhanced_AlertsCatch(cE, defo.cache, cfg, t, tried)
        ELSE EResult("return", sortedAlerts,
                     setCachedData(cE, key, sortedAlerts, EnhancedDuration(key), t),
                     defo.cache, defoTried, "fresh", LiveCount(merged), 0)

Enhanced_getForestAlerts(cE, cS, cfg, t, health, direct, fireResp, defResp) ==
    LET server == Server_getForestAlerts(cS, cfg.noMock, t, fireResp, defResp)
        checked == <<Attempt("health", "Proxy", health)>>
    IN  IF ~cfg.nasa_firms /\ health
        THEN IF server.outcome = "return"
             THEN EResult("return", server.data, cE, server.cache,
                          checked \o server.attempts,
                          IF server.path = "cache" THEN "server-cache"
                          ELSE IF server.path = "fresh" THEN "server-fresh"
                          ELSE IF server.path = "empty" THEN "server-empty"
                          ELSE "server-fallback",
                          server.live, server.age)
             ELSE Enhanced_BrowserAlerts(cE, server.cache, cfg, t, direct, defResp,
                                         checked \o server.attempts)
        ELSE Enhanced_BrowserAlerts(cE, cS, cfg, t, direct, defResp,
                                    IF cfg.nasa_firms THEN <<>> ELSE checked)

-----------------------------------------------------------------------------
(* Regions, weather, species and satellite data of the client services      *)

RegionIds == <<"amazon", "congo", "boreal", "southeast_asia", "temperate", "tropical_africa">>

Region(id, origin) == [type |-> "region", id |-> id, origin |-> origin]

Weather(id, origin) == [type |-> "weather", id |-> id, origin |-> origin]

Species(i, origin) == [type |-> "species", id |-> i, origin |-> origin]

(* MockDataService.getForestRegions: six regions *)
MockDataService_getForestRegions == [i \in 1..6 |-> Region(RegionIds[i], "mock")]

(* MockDataService.getBiodiversityData: six species *)
MockDataService_getBiodiversityData == [i \in 1..6 |-> Species(i, "mock")]

(* ServerSideDataService.getMockForestRegions: three regions *)
Server_getMockForestRegions == [i \in 1..3 |-> Region(RegionIds[i], "mock")]

(* worker.ts handleForestRegions: always the two generated regions *)
WorkerRegionResponses ==
    {Reject, Json(FALSE, TRUE, <<>>, "none"),
     Json(TRUE, FALSE, [i \in 1..2 |-> Region(RegionIds[i], "generated")], "server-generated")}

(* worker.ts handleSatelliteData *)
WorkerSatelliteResponses ==
    {Reject, Json(FALSE, TRUE, <<>>, "none"),
     Json(TRUE, FALSE, <<[type |-> "satellite", id |-> "amazon", origin |-> "live"]>>, "nasa-gibs")}

Server_getForestRegions(cache, noMock, t, resp) ==
    LET key == "forest_regions_server"
        cached == getCachedData(cache, key, FOREST_DATA, t)
    IN  IF cached.hit
        THEN Result("return", cached.data, cache, <<>>, "cache",
                    LiveCount(cached.data), Age(cache, key, t))
        ELSE IF resp.kind = "json" /\ resp.success
        THEN Result("return", resp.data,
                    setCachedData(cache, key, resp.data, FOREST_DATA, t),
                    <<Attempt("regions", "Proxy", TRUE)>>, "fresh",
                    LiveCount(resp.data), 0)
        ELSE IF noMock
        THEN Result("throw", <<>>, cache,
                    <<Attempt("regions", "Proxy", FALSE)>>, "error", 0, 0)
        ELSE Result("return", Server_getMockForestRegions, cache,
                    <<Attempt("regions", "Proxy", FALSE),
                      Attempt("regions", "Mock", TRUE)>>, "fallback", 0, 0)

(* getSatelliteData: no cache, and the catch rethrows whatever the flag *)
Server_getSatelliteData(cache, noMock, t, resp) ==
    IF resp.kind = "json" /\ resp.success
    THEN Result("return", resp.data, cache,
                <<Attempt("satellite", "Proxy", TRUE)>>, "fresh", LiveCount(resp.data), 0)
    ELSE Result("throw", <<>>, cache,
                <<Attempt("satellite", "Proxy", FALSE)>>, "error", 0, 0)

WeatherKey(id) ==
    CASE id = "amazon" -> "weather_live_amazon"
      [] id = "congo" -> "weather_live_congo"
      [] id = "boreal" -> "weather_live_boreal"
      [] id = "southeast_asia" -> "weather_live_southeast_asia"
      [] id = "temperate" -> "weather_live_temperate"
      [] id = "tropical_africa" -> "weather_live_tropical_africa"

Enhanced_getWeatherData(cE, cfg, t, id, fetchOk) ==
    LET key == WeatherKey(id)
        cached == getCachedData(cE, key, EnhancedDuration(key), t)
        mock == <<Weather(id, "mock")>>
        live == <<Weather(id, "live")>>
    IN  IF ~cfg.openweather
        THEN IF cfg.noMock
             THEN Result("throw", <<>>, cE, <<>>, "error", 0, 0)
             ELSE Result("return", mock, cE, <<Attempt("weather", "Mock", TRUE)>>,
                         "fallback", 0, 0)
        ELSE IF cached.hit
        THEN Result("return", cached.data, cE, <<>>, "cache",
                    LiveCount(cached.data), Age(cE, key, t))
        ELSE IF fetchOk
        THEN Result("return", live, setCachedData(cE, key, live, EnhancedDuration(key), t),
                    <<Attempt("weather", "Direct", TRUE)>>, "fresh", 1, 0)
        ELSE IF cfg.noMock
        THEN Result("throw", <<>>, cE, <<Attempt("weather", "Direct", FALSE)>>,
                    "error", 0, 0)
        ELSE Result("return", mock, cE,
                    <<Attempt("weather", "Direct", FALSE),
                      Attempt("weather", "Mock", TRUE)>>, "fallback", 0, 0)

(* Promise.all of getLiveRegionData over the six regions: each one awaits   *)
(* getWeatherData first; satellite and forest-change failures are absorbed  *)
(* by defaults.  A region inherits the origin of its weather.               *)
RECURSIVE Enhanced_LiveRegions(_, _, _, _, _)
Enhanced_LiveRegions(cE, cfg, t, ids, failing) ==
    IF ids = <<>>
    THEN [thrown |-> FALSE, regions |-> <<>>, cache |-> cE, attempts |-> <<>>]
    ELSE LET w == Enhanced_getWeatherData(cE, cfg, t, Head(ids), Head(ids) \notin failing)
             rest == Enhanced_LiveRegions(w.cache, cfg, t, Tail(ids), failing)
         IN  [thrown |-> w.outcome = "throw" \/ rest.thrown,
              regions |-> (IF w.outcome = "throw" THEN <<>>
                           ELSE <<Region(Head(ids), w.data[1].origin)>>) \o rest.regions,
              cache |-> rest.cache,
              attempts |-> w.attempts \o rest.attempts]

Enhanced_BrowserRegions(cE, cS, cfg, t, failing, before) ==
    LET key == "forest_regions_live"
        cached == getCachedData(cE, key, EnhancedDuration(key), t)
        built == Enhanced_LiveRegions(cE, cfg, t, RegionIds, failing)
    IN  IF cached.hit
        THEN EResult("return", cached.data, cE, cS, before, "cache",
                     LiveCount(cached.data), Age(cE, key, t))
        ELSE IF built.thrown
        THEN EResult("return", MockDataService_getForestRegions, built.cache, cS,
                     before \o built.attempts \o <<Attempt("regions", "Mock", TRUE)>>,
                     "catch-mock", 0, 0)
        ELSE EResult("return", built.regions,
                     setCachedData(built.cache, key, built.regions, EnhancedDuration(key), t),
                     cS, before \o built.attempts, "fresh", LiveCount(built.regions), 0)

Enhanced_getForestRegions(cE, cS, cfg, t, health, resp, failing) ==
    LET server == Server_getForestRegions(cS, cfg.noMock, t, resp)
        checked == <<Attempt("health", "Proxy", health)>>
    IN  IF health
        THEN IF server.outcome = "return"
             THEN EResult("return", server.data, cE, server.cache,
                          checked \o server.attempts,
                          IF server.path = "cache" THEN "server-cache"
                          ELSE IF server.path = "fresh" THEN "server-fresh"
                          ELSE "server-fallback",
                          server.live, server.age)
             ELSE Enhanced_BrowserRegions(cE, server.cache, cfg, t, failing,
                                          checked \o server.attempts)
        ELSE Enhanced_BrowserRegions(cE, cS, cfg, t, failing, checked)

(* getLiveBiodiversityData: the species whose GBIF lookup succeeded, in the *)
(* order of the five queries; failures are dropped                          *)
RECURSIVE Enhanced_getLiveBiodiversityData(_, _)
Enhanced_getLiveBiodiversityData(i, found) ==
    IF i > 5 THEN <<>>
    ELSE (IF i \in found THEN <<Species(i, "live")>> ELSE <<>>)
         \o Enhanced_getLiveBiodiversityData(i + 1, found)

Enhanced_getBiodiversityData(cE, cfg, t, found) ==
    LET key == "biodiversity_live"
        cached == getCachedData(cE, key, EnhancedDuration(key), t)
        species == Enhanced_getLiveBiodiversityData(1, found)
        tried == [i \in 1..5 |-> Attempt("species", "Direct", i \in found)]
    IN  IF cached.hit
        THEN Result("return", cached.data, cE, <<>>, "cache",
                    LiveCount(cached.data), Age(cE, key, t))
        ELSE IF species = <<>>
        THEN IF cfg.noMock
             THEN Result("return", <<>>, cE, tried, "empty", 0, 0)
             ELSE Result("return", MockDataService_getBiodiversityData, cE,
                         tried \o <<Attempt("species", "Mock", TRUE)>>, "fallback", 0, 0)
        ELSE Result("return", species,
                    setCachedData(cE, key, species, EnhancedDuration(key), t),
                    tried, "fresh", Len(species), 0)

-----------------------------------------------------------------------------
(* The Worker (cloudflare/worker.ts) and the edge function bundled in the   *)
(* migration.  The Worker's cache maps a cache key to the response stored   *)
(* under it; an entry is only ever written on a miss.                       *)

NoResponses == [k \in {} |-> Reject]

IdleWorker ==
    [cache |-> NoResponses, pc |-> "idle", key |-> "none", noMock |-> FALSE,
     limit |-> 0, found |-> 0, results |-> <<>>, iter |-> 0]

(* array.slice(from, to) *)
JsSlice(s, from, to) ==
    IF from >= Len(s) \/ to <= from THEN <<>> ELSE SubSeq(s, from + 1, Min(to, Len(s)))

Put(cache, key, response) ==
    [k \in DOMAIN cache \cup {key} |-> IF k = key THEN response ELSE cache[k]]

(* https://cache.fire-alerts/${region}/${days} *)
FireCacheKey(days) == IF days = 1 THEN "fire-alerts/world/1" ELSE "fire-alerts/world/7"

Worker_handleFireAlerts(cache, days, noMockParam, hasKey, upstream, t) ==
    LET key == FireCacheKey(days)
        mock == Json(TRUE, FALSE, Worker_generateMockFireAlerts(t), "mock")
        live == Json(TRUE, FALSE, Worker_parseFireCsvData(upstream.rows, t), "nasa-firms")
    IN  IF key \in DOMAIN cache
        THEN [response |-> cache[key], cache |-> cache, fromCache |-> TRUE]
        ELSE IF ~hasKey
        THEN IF noMockParam
             THEN [response |-> Json(FALSE, TRUE, <<>>, "none"), cache |-> cache,
                   fromCache |-> FALSE]
             ELSE [response |-> mock, cache |-> Put(cache, key, mock), fromCache |-> FALSE]
        ELSE IF upstream.ok
        THEN [response |-> live, cache |-> Put(cache, key, live), fromCache |-> FALSE]
        ELSE IF noMockParam
        THEN [response |-> Json(FALSE, TRUE, <<>>, "none"), cache |-> cache,
              fromCache |-> FALSE]
        ELSE [response |-> Json(TRUE, TRUE, Worker_generateMockFireAlerts(t), "mock-fallback"),
              cache |-> cache, fromCache |-> FALSE]

(* generateMockBiodiversityData, in the Worker and in the edge function:    *)
(* two species                                                              *)
generateMockBiodiversityData == <<Species(1, "mock"), Species(2, "mock")>>

(* the five GBIF lookups of a handler: the species found, in query order *)
RECURSIVE SpeciesResults(_, _)
SpeciesResults(i, found) ==
    IF i > 5 THEN <<>>
    ELSE (IF i \in found THEN <<Species(i, "live")>> ELSE <<>>) \o SpeciesResults(i + 1, found)

(* https://cache.biodiversity/${region}/${limit} *)
BiodiversityCacheKey(limit) ==
    IF limit = 2 THEN "biodiversity/global/2" ELSE "biodiversity/global/20"

(* the condition of the while loop of handleBiodiversity *)
BackfillWanted(w) == Len(w.results) < Min(w.limit, 5)

(* the response handleBiodiversity builds once the loop is left *)
Worker_BiodiversityResponse(w) ==
    Json(TRUE, FALSE, JsSlice(w.results, 0, w.limit),
         IF Len(w.results) >= 5 THEN "gbif-enhanced" ELSE "mock")

(* biodiversity_${region}_${limit} in the api_cache table *)
ApiCacheKey(limit) ==
    IF limit = 2 THEN "api_cache/biodiversity_global_2" ELSE "api_cache/biodiversity_global_20"

(* handleBiodiversityData of the edge function: no no_mock parameter; the   *)
(* shortfall is filled with mockSpecies.slice(biodiversityData.length)      *)
Edge_handleBiodiversityData(cache, limit, found) ==
    LET key == ApiCacheKey(limit)
        live == SpeciesResults(1, found)
        filled == IF Len(live) < 5
                  THEN live \o JsSlice(generateMockBiodiversityData, Len(live),
                                       Len(generateMockBiodiversityData))
                  ELSE live
        response == Json(TRUE, FALSE, filled, "gbif-enhanced")
    IN  IF key \in DOMAIN cache
        THEN [response |-> Json(TRUE, FALSE, cache[key].data, "server-cache"),
              cache |-> cache, fromCache |-> TRUE]
        ELSE [response |-> response, cache |-> Put(cache, key, response),
              fromCache |-> FALSE]

-----------------------------------------------------------------------------
(* The clock *)

Tick ==
    /\ now + TickMinutes <= MaxTime
    /\ now' = now + TickMinutes
    /\ UNCHANGED <<config, storage, cacheE, cacheS, last, written, worker, calls>>

-----------------------------------------------------------------------------
(* ApiConfigManager *)

loadNoMockFlag_TrueOnly(saved) == saved = "true"

(* loadNoMockFlag: saved === '1' || saved === 'true' *)
loadNoMockFlag(saved) == saved \in {"1", "true"}

(* the fields of a manager before its constructor has loaded anything *)
NoConfig == [nasa_firms |-> FALSE, openweather |-> FALSE, noMock |-> FALSE]

(* loadApiKeys: the stored keys replace the fields; when the stored value   *)
(* does not parse, the catch logs and the fields stay as they were.  No     *)
(* key comes from the build environment.                                    *)
loadApiKeys(cfg, st) ==
    IF st.malformed THEN cfg
    ELSE [cfg EXCEPT !.nasa_firms = st.nasa_firms, !.openweather = st.openweather]

(* refreshApiKeys: loadApiKeys then loadNoMockFlag, on the same instance *)
refreshApiKeys(cfg, st) ==
    [loadApiKeys(cfg, st) EXCEPT !.noMock = loadNoMockFlag(st.noMock)]

(* the constructor: the same two loads on a fresh instance *)
LoadConfig(st) == refreshApiKeys(NoConfig, st)

hasApiKey(cfg, service) ==
    IF service = "nasa_firms" THEN cfg.nasa_firms ELSE cfg.openweather

(* useLiveData is set by loadApiKeys to "some key is present", together    *)
(* with the keys                                                            *)
shouldUseLiveData(cfg) == cfg.nasa_firms \/ cfg.openweather

isNoMockEnabled(cfg) == cfg.noMock

ConfigOps == {"setNoMock", "refreshApiKeys", "newInstance", "saveApiKeys", "storageEdit"}

(* the value of the last setNoMock whose stored flag is still in place *)
FlagSet(l) == IF l.op \in ConfigOps THEN l.flagSet ELSE {}

(* setNoMock: the field and the stored flag, nothing else *)
SetNoMock ==
    \E enabled \in BOOLEAN :
        /\ config' = [config EXCEPT !.noMock = enabled]
        /\ storage' = [storage EXCEPT !.noMock = IF enabled THEN "1" ELSE "0"]
        /\ last' = [op |-> "setNoMock", flagSet |-> {enabled}]
        /\ UNCHANGED <<now, cacheE, cacheS, written, worker, calls>>

-----------------------------------------------------------------------------
(* SpecCache: the cache of ServerSideDataService driven key by key, each   *)
(* key with the duration of its call sites.                                *)

CacheKeys == {"forest_alerts_server", "weather_server", "forest_regions_server"}

CacheValues ==
    {<<>>, <<Alert("fire", 0, "live")>>, <<Alert("fire", 0, "mock")>>}


NoStorage ==
    [nasa_firms |-> FALSE, openweather |-> FALSE, malformed |-> FALSE, noMock |-> "absent"]

CacheInit ==
    /\ now = 0
    /\ config = NoConfig
    /\ storage = NoStorage
    /\ cacheE = EmptyCache
    /\ cacheS = EmptyCache
    /\ last = [op |-> "none"]
    /\ written = NoHistory
    /\ worker = IdleWorker
    /\ calls = 0

CacheSet ==
    \E key \in CacheKeys, data \in CacheValues :
        /\ cacheS' = setCachedData(cacheS, key, data, ServerDuration(key), now)
        /\ written' = Record(written, key, data, now)
        /\ last' = [op |-> "setCachedData", key |-> key, at |-> now]
        /\ UNCHANGED <<now, config, storage, cacheE, worker, calls>>

CacheGet ==
    \E key \in CacheKeys :
        /\ last' = [op |-> "getCachedData", key |-> key, at |-> now,
                    result |-> getCachedData(cacheS, key, ServerDuration(key), now)]
        /\ UNCHANGED <<now, config, storage, cacheE, cacheS, written, worker, calls>>

CacheNext == CacheSet \/ CacheGet \/ Tick

SpecCache == CacheInit /\ [][CacheNext]_vars

(* C4: a get answers the value of the latest set on its key while less     *)
(* than the key's duration has passed since that set (in particular right  *)
(* after it, and the second of two sets), and a miss once the duration has *)
(* elapsed or when the key was never set.                                  *)
C4_CacheGetAfterSet ==
    last.op = "getCachedData" =>
        LET k == last.key IN
        IF k \in DOMAIN written /\ last.at - written[k].at < ServerDuration(k)
        THEN last.result = [hit |-> TRUE, data |-> written[k].data]
        ELSE last.result = Miss

(* a key that was set is read once its duration has elapsed: a miss *)
C4_Witness ==
    /\ last.op = "getCachedData"
    /\ last.key \in DOMAIN written
    /\ last.at - written[last.key].at >= ServerDuration(last.key)
    /\ last.result = Miss

-----------------------------------------------------------------------------
(* Spec: the alerts of EnhancedForestDataService in a browser, with the     *)
(* live-only flag toggled between calls.                                    *)

Failed(resp) == resp.kind = "reject" \/ ~resp.success

AlertsInit ==
    /\ now = 0
    /\ \E key \in BOOLEAN :
          storage = [nasa_firms |-> key, openweather |-> FALSE, malformed |-> FALSE,
                     noMock |-> "absent"]
    /\ config = LoadConfig(storage)
    /\ cacheE = EmptyCache
    /\ cacheS = EmptyCache
    /\ last = [op |-> "none"]
    /\ written = NoHistory
    /\ worker = IdleWorker
    /\ calls = 0

GetForestAlerts ==
    /\ calls < MaxCalls
    /\ calls' = calls + 1
    /\ \E health \in BOOLEAN, direct \in DirectFireOutcomes,
       fireResp \in WorkerFireResponses(config.noMock, now),
       defResp \in WorkerDeforestationResponses(config.noMock, now) :
        LET r == Enhanced_getForestAlerts(cacheE, cacheS, config, now, health,
                                          direct, fireResp, defResp)
        IN  /\ cacheE' = r.cacheE
            /\ cacheS' = r.cacheS
            /\ last' = [op |-> "getForestAlerts", outcome |-> r.outcome,
                        data |-> r.data, attempts |-> r.attempts,
                        path |-> r.path, live |-> r.live, age |-> r.age,
                        noMock |-> config.noMock, key |-> config.nasa_firms,
                        allFailed |-> ~health /\ ~direct.ok /\ Failed(fireResp)
                                      /\ Failed(defResp)]
            /\ UNCHANGED <<now, config, storage, written, worker>>

Next == GetForestAlerts \/ SetNoMock \/ Tick

Spec == AlertsInit /\ [][Next]_vars

FromCache(path) == path \in {"cache", "server-cache"}

(* C3: a change of the live-only flag invalidates the caches of the data    *)
(* services, so that the next resolution call sees no entry written under   *)
(* the previous configuration.                                              *)
C3_ConfigChangeInvalidatesCaches ==
    [][config'.noMock # config.noMock =>
          cacheE' = EmptyCache /\ cacheS' = EmptyCache]_vars

(* C5: a list of alerts that holds a fire alert is served from a cache only *)
(* while it is younger than the 15 minutes of the fire category.            *)
C5_FireAlertsServedWithinTTL ==
    (/\ last.op = "getForestAlerts"
     /\ FromCache(last.path)
     /\ \E i \in DOMAIN last.data : last.data[i].type = "fire")
        => last.age < FIRE_DATA

(* C6: in the attempts of one resolution, the Mock route of a category is   *)
(* used only after the Proxy route of that category has been attempted.     *)
C6_MockOnlyAfterProxy ==
    last.op = "getForestAlerts" =>
        \A i \in DOMAIN last.attempts :
            last.attempts[i].route = "Mock" =>
                \E j \in 1..(i - 1) :
                    /\ last.attempts[j].route = "Proxy"
                    /\ last.attempts[j].category = last.attempts[i].category

C10_GeneratedOnlyWithoutLive ==
    (last.op = "getForestAlerts" /\ HasGenerated(last.data)) =>
        (~last.noMock /\ last.live = 0)

-----------------------------------------------------------------------------
(* SpecOps: regions, species, weather and satellite data of the client      *)
(* services, with the live-only flag toggled between calls.                 *)

WeatherFailures == {{}, {"congo"}, {RegionIds[i] : i \in 1..6}}

SpeciesFound == {{}, {1}, {2, 4}, 1..5}

OpsInit ==
    /\ now = 0
    /\ \E key \in BOOLEAN :
          storage = [nasa_firms |-> FALSE, openweather |-> key, malformed |-> FALSE,
                     noMock |-> "absent"]
    /\ config = LoadConfig(storage)
    /\ cacheE = EmptyCache
    /\ cacheS = EmptyCache
    /\ last = [op |-> "none"]
    /\ written = NoHistory
    /\ worker = IdleWorker
    /\ calls = 0

Outcome(op, r, allFailed) ==
    [op |-> op, outcome |-> r.outcome, data |-> r.data, attempts |-> r.attempts,
     path |-> r.path, live |-> r.live, age |-> r.age, noMock |-> config.noMock,
     allFailed |-> allFailed]

GetForestRegions ==
    /\ calls < MaxCalls
    /\ calls' = calls + 1
    /\ \E health \in BOOLEAN, resp \in WorkerRegionResponses, failing \in WeatherFailures :
        LET r == Enhanced_getForestRegions(cacheE, cacheS, config, now, health, resp, failing)
        IN  /\ cacheE' = r.cacheE
            /\ cacheS' = r.cacheS
            /\ last' = Outcome("getForestRegions", r,
                               (~health \/ Failed(resp))
                               /\ (~config.openweather \/ failing = {RegionIds[i] : i \in 1..6}))
    /\ UNCHANGED <<now, config, storage, written, worker>>

GetBiodiversityData ==
    /\ calls < MaxCalls
    /\ calls' = calls + 1
    /\ \E found \in SpeciesFound :
        LET r == Enhanced_getBiodiversityData(cacheE, config, now, found)
        IN  /\ cacheE' = r.cache
            /\ last' = Outcome("getBiodiversityData", r, found = {})
    /\ UNCHANGED <<now, config, storage, cacheS, written, worker>>

(* a getWeatherData that would drop the key after a failed request *)
GetWeatherData_DropsKey ==
    /\ calls < MaxCalls
    /\ calls' = calls + 1
    /\ \E fetchOk \in BOOLEAN :
        LET r == Enhanced_getWeatherData(cacheE, config, now, "amazon", fetchOk)
        IN  /\ cacheE' = r.cache
            /\ config' = [config EXCEPT !.openweather = @ /\ fetchOk]
            /\ last' = Outcome("getWeatherData", r, ~config.openweather \/ ~fetchOk)
    /\ UNCHANGED <<now, storage, cacheS, written, worker>>

GetWeatherData ==
    /\ calls < MaxCalls
    /\ calls' = calls + 1
    /\ \E fetchOk \in BOOLEAN :
        LET r == Enhanced_getWeatherData(cacheE, config, now, "amazon", fetchOk)
        IN  /\ cacheE' = r.cache
            /\ last' = Outcome("getWeatherData", r, ~config.openweather \/ ~fetchOk)
    /\ UNCHANGED <<now, config, storage, cacheS, written, worker>>

GetSatelliteData ==
    /\ calls < MaxCalls
    /\ calls' = calls + 1
    /\ \E resp \in WorkerSatelliteResponses :
        LET r == Server_getSatelliteData(cacheS, config.noMock, now, resp)
        IN  /\ cacheS' = r.cache
            /\ last' = Outcome("getSatelliteData", r, Failed(resp))
    /\ UNCHANGED <<now, config, storage, cacheE, written, worker>>

Services == {"openweather", "nasa_firms", "nasa_gibs", "global_forest_watch", "gbif", "other"}

(* ApiConfigManager.testApiConnection: one request to the Worker, and the  *)
(* answer reported                                                          *)
TestApiConnection ==
    \E service \in Services, ok \in BOOLEAN :
        /\ last' = [op |-> "testApiConnection", service |-> service,
                    success |-> (service # "other" /\ ok)]
        /\ UNCHANGED <<now, config, storage, cacheE, cacheS, written, worker, calls>>

OpsNext ==
    \/ TestApiConnection
    \/ GetForestRegions
    \/ GetBiodiversityData
    \/ GetWeatherData
    \/ GetSatelliteData
    \/ SetNoMock
    \/ Tick

SpecOps == OpsInit /\ [][OpsNext]_vars

ResolutionOps ==
    {"getForestRegions", "getBiodiversityData", "getWeatherData", "getSatelliteData"}

(* C1: with live-only off, every data-resolution operation returns, and     *)
(* what it returns is not empty.                                            *)
C1_MocksAllowedAlwaysReturns ==
    (last.op \in ResolutionOps /\ ~last.noMock) =>
        (last.outcome = "return" /\ last.data # <<>>)

(* C2: with live-only on and every upstream attempt failing, an operation   *)
(* ends in an error or an empty result, never in data of a mock generator.  *)
C2_LiveOnlyNeverMock ==
    (last.op \in ResolutionOps /\ last.noMock /\ last.allFailed
     /\ last.path \notin {"cache", "server-cache"}) =>
        (last.outcome = "throw" \/ ~HasMock(last.data))

-----------------------------------------------------------------------------
(* SpecWorker: requests served by the Worker and by the edge function.      *)

MaxIter == 3

FireDays == {1, 7}

Limits == {2, 20}

WorkerInit ==
    /\ now = 0
    /\ storage = NoStorage
    /\ config = NoConfig
    /\ cacheE = EmptyCache
    /\ cacheS = EmptyCache
    /\ last = [op |-> "none"]
    /\ written = NoHistory
    /\ worker = IdleWorker
    /\ calls = 0

Served(op, noMockParam, limit, found, response, fromCache) ==
    [op |-> op, noMock |-> noMockParam, limit |-> limit, found |-> found,
     response |-> response, fromCache |-> fromCache]

HandleFireAlerts ==
    /\ worker.pc = "idle"
    /\ calls < MaxCalls
    /\ calls' = calls + 1
    /\ \E days \in FireDays, noMockParam \in BOOLEAN, hasKey \in BOOLEAN,
          upstream \in DirectFireOutcomes :
        LET r == Worker_handleFireAlerts(worker.cache, days, noMockParam, hasKey,
                                         upstream, now)
        IN  /\ worker' = [worker EXCEPT !.cache = r.cache]
            /\ last' = [op |-> "handleFireAlerts", noMock |-> noMockParam,
                        days |-> days, hasKey |-> hasKey, upstreamOk |-> upstream.ok,
                        response |-> r.response, fromCache |-> r.fromCache]
    /\ UNCHANGED <<now, config, storage, cacheE, cacheS, written>>

(* handleBiodiversity up to the while loop: a cache hit answers at once,    *)
(* otherwise the five lookups are made and the loop is entered              *)
HandleBiodiversity ==
    /\ worker.pc = "idle"
    /\ calls < MaxCalls
    /\ calls' = calls + 1
    /\ \E limit \in Limits, noMockParam \in BOOLEAN, found \in SpeciesFound :
        LET key == BiodiversityCacheKey(limit)
        IN  IF key \in DOMAIN worker.cache
            THEN /\ last' = Served("handleBiodiversity", noMockParam, limit,
                                   Cardinality(found), worker.cache[key], TRUE)
                 /\ UNCHANGED worker
            ELSE /\ worker' = [worker EXCEPT !.pc = "backfill", !.key = key,
                                             !.noMock = noMockParam, !.limit = limit,
                                             !.found = Cardinality(found),
                                             !.results = SpeciesResults(1, found),
                                             !.iter = 0]
                 /\ UNCHANGED last
    /\ UNCHANGED <<now, config, storage, cacheE, cacheS, written>>

(* one iteration of the loop body that is not the break *)
BackfillStep ==
    /\ worker.pc = "backfill"
    /\ BackfillWanted(worker)
    /\ ~worker.noMock
    /\ worker.iter < MaxIter
    /\ worker' = [worker EXCEPT
                    !.results = @ \o JsSlice(generateMockBiodiversityData, Len(@), Len(@) + 1),
                    !.iter = @ + 1]
    /\ UNCHANGED <<now, config, storage, cacheE, cacheS, last, written, calls>>

(* the loop is left, by its condition or by the break under no_mock=1 *)
BackfillExit ==
    /\ worker.pc = "backfill"
    /\ ~BackfillWanted(worker) \/ worker.noMock
    /\ LET response == Worker_BiodiversityResponse(worker)
       IN  /\ worker' = [IdleWorker EXCEPT
                            !.cache = Put(worker.cache, worker.key, response)]
           /\ last' = Served("handleBiodiversity", worker.noMock, worker.limit,
                             worker.found, response, FALSE)
    /\ UNCHANGED <<now, config, storage, cacheE, cacheS, written, calls>>

HandleBiodiversityData ==
    /\ worker.pc = "idle"
    /\ calls < MaxCalls
    /\ calls' = calls + 1
    /\ \E limit \in Limits, noMockParam \in BOOLEAN, found \in SpeciesFound :
        LET r == Edge_handleBiodiversityData(worker.cache, limit, found)
        IN  /\ worker' = [worker EXCEPT !.cache = r.cache]
            /\ last' = Served("handleBiodiversityData", noMockParam, limit,
                              Cardinality(found), r.response, r.fromCache)
    /\ UNCHANGED <<now, config, storage, cacheE, cacheS, written>>

WorkerNext ==
    \/ HandleFireAlerts
    \/ HandleBiodiversity
    \/ BackfillStep
    \/ BackfillExit
    \/ HandleBiodiversityData
    \/ Tick

SpecWorker == WorkerInit /\ [][WorkerNext]_vars

(* C7: a species resolution answered with mocks allowed has as many entries *)
(* as were requested (the five species queried, or the limit if smaller),   *)
(* the live entries first-hand and the shortfall from the mock generator;   *)
(* answered under live-only it has exactly the live entries.                *)
C7_BackfillToRequested ==
    (/\ last.op \in {"handleBiodiversity", "handleBiodiversityData"}
     /\ ~last.fromCache) =>
        LET requested == Min(last.limit, 5)
            data == last.response.data
        IN  IF last.noMock
            THEN Len(data) = Min(last.found, last.limit) /\ ~HasMock(data)
            ELSE /\ Len(data) = requested
                 /\ LiveCount(data) = Min(last.found, requested)

(* C8: a fire-alert request for region "world", days 1, served with a key   *)
(* while FIRMS fails and mocks are allowed, is answered with 2 mock alerts  *)
(* tagged "mock-fallback", and that answer is stored in the cache under the *)
(* request's key, so that a repeat of the request is answered from it.      *)
C8_MockFallbackCached ==
    (/\ last.op = "handleFireAlerts"
     /\ last.days = 1 /\ last.hasKey /\ ~last.upstreamOk
     /\ ~last.noMock /\ ~last.fromCache) =>
        /\ last.response.source = "mock-fallback"
        /\ Len(last.response.data) = 2
        /\ FireCacheKey(last.days) \in DOMAIN worker.cache
        /\ worker.cache[FireCacheKey(last.days)] = last.response

(* C20: the backfill loop of handleBiodiversity always exits: every pass   *)
(* that stays in the loop lengthens results.  The loop condition reads     *)
(* only results, limit and no_mock, so a pass that leaves results as it    *)
(* found them is repeated without end.                                     *)
C20_BackfillLoopExits ==
    [][(/\ worker.pc = "backfill"
        /\ worker'.pc = "backfill"
        /\ worker'.iter = worker.iter + 1) =>
          Len(worker'.results) > Len(worker.results)]_vars

MockSources == {"mock", "mock-fallback"}

LiveSources == {"nasa-firms", "global-forest-watch", "gbif-enhanced"}

(* C11: with live-only off, the source tag of a response tells what made    *)
(* its data: a response tagged as mock holds no live record, and a response *)
(* tagged with a live provider holds no record of a mock generator.         *)
C11_SourceTagTruthful ==
    (/\ last.op \in {"handleFireAlerts", "handleBiodiversity", "handleBiodiversityData"}
     /\ ~last.noMock) =>
        /\ last.response.source \in MockSources => LiveCount(last.response.data) = 0
        /\ last.response.source \in LiveSources => ~HasMock(last.response.data)

(* C12: a request to a Worker endpoint that carries no_mock=1 is never      *)
(* answered with data of a mock generator, whatever requests came before    *)
(* it and whether or not the answer comes from the Worker's cache.          *)
C12_NoMockVeto ==
    (/\ last.op \in {"handleFireAlerts", "handleBiodiversity"}
     /\ last.noMock) =>
        /\ last.response.source \notin MockSources
        /\ ~HasMock(last.response.data)

-----------------------------------------------------------------------------
(* Threshold functions and record parsers.  A JavaScript number is either   *)
(* NaN (also what a missing or non-numeric field becomes in arithmetic and  *)
(* comparisons) or a value; a comparison with NaN is false.                 *)

NaN == [nan |-> TRUE, v |-> 0]

Num(v) == [nan |-> FALSE, v |-> v]

Gt(x, k) == ~x.nan /\ x.v > k

Ge(x, k) == ~x.nan /\ x.v >= k

(* x || d for a numeric field: d when x is missing, NaN or 0 *)
OrDefault(x, d) == IF x.nan \/ x.v = 0 THEN d ELSE x

Max(a, b) == IF a > b THEN a ELSE b

Levels == {"low", "medium", "high", "critical"}

calculateFireSeverity_AtThreshold(frp, confidence) ==
    IF Ge(frp, 50) /\ Ge(confidence, 80) THEN "critical"
    ELSE IF Ge(frp, 25) /\ Ge(confidence, 70) THEN "high"
    ELSE IF Ge(frp, 10) /\ Ge(confidence, 60) THEN "medium"
    ELSE "low"

(* EnhancedForestDataService.calculateFireSeverity *)
Enhanced_calculateFireSeverity(frp, confidence) ==
    IF Gt(frp, 50) /\ Gt(confidence, 80) THEN "critical"
    ELSE IF Gt(frp, 25) /\ Gt(confidence, 70) THEN "high"
    ELSE IF Gt(frp, 10) /\ Gt(confidence, 60) THEN "medium"
    ELSE "low"

(* worker.ts calculateFireSeverity *)
Worker_calculateFireSeverity(frp, confidence) ==
    IF Gt(frp, 50) /\ Gt(confidence, 80) THEN "critical"
    ELSE IF Gt(frp, 25) /\ Gt(confidence, 70) THEN "high"
    ELSE IF Gt(frp, 10) /\ Gt(confidence, 60) THEN "medium"
    ELSE "low"

(* getDeforestationSeverity, the same in the client and in the Worker *)
getDeforestationSeverity(alertCount) ==
    IF Gt(alertCount, 100) THEN "critical"
    ELSE IF Gt(alertCount, 50) THEN "high"
    ELSE IF Gt(alertCount, 10) THEN "medium"
    ELSE "low"

(* The fire weather index, in hundredths: Math.min(100, sum / 3) with the   *)
(* quotient cut to two decimals.  Math.max and Math.min answer NaN when an  *)
(* argument is NaN.                                                         *)
Hundredths(sum) == (sum * 100) \div 3

calculateFireWeatherIndex_NoFloor(temp, humidity, precipitation) ==
    IF temp.nan \/ humidity.nan \/ precipitation.nan THEN NaN
    ELSE Num(Min(10000, Hundredths(Max(0, 100 - humidity.v) + (temp.v - 20)
                                   + Max(0, 30 - precipitation.v))))

calculateFireWeatherIndex_HeatFrom30(temp, humidity, precipitation) ==
    IF temp.nan \/ humidity.nan \/ precipitation.nan THEN NaN
    ELSE Num(Min(10000, Hundredths(Max(0, 100 - humidity.v) + Max(0, temp.v - 30)
                                   + Max(0, 30 - precipitation.v))))

(* EnhancedForestDataService.calculateFireWeatherIndex *)
Enhanced_calculateFireWeatherIndex(temp, humidity, precipitation) ==
    IF temp.nan \/ humidity.nan \/ precipitation.nan THEN NaN
    ELSE LET dryness == Max(0, 100 - humidity.v)
             heat == Max(0, temp.v - 20)
             dryPeriod == Max(0, 30 - precipitation.v)
         IN  Num(Min(10000, Hundredths(dryness + heat + dryPeriod)))

(* worker.ts calculateFireWeatherIndex *)
Worker_calculateFireWeatherIndex(temp, humidity, precipitation) ==
    IF temp.nan \/ humidity.nan \/ precipitation.nan THEN NaN
    ELSE LET dryness == Max(0, 100 - humidity.v)
             heat == Max(0, temp.v - 20)
             dryPeriod == Max(0, 30 - precipitation.v)
         IN  Num(Min(10000, Hundredths(dryness + heat + dryPeriod)))

(* one data row of parseFireCsvData (client and Worker alike): the fields   *)
(* are read with parseFloat and the confidence is stored as read            *)
parseFireRow(impl, frp, confidence) ==
    [type |-> "fire",
     severity |-> IF impl = "enhanced" THEN Enhanced_calculateFireSeverity(frp, confidence)
                  ELSE Worker_calculateFireSeverity(frp, confidence),
     confidence |-> confidence]

(* one alert of parseGladAlertsData (client and Worker alike) *)
parseGladAlert(alertCount, confidence) ==
    [type |-> "deforestation",
     severity |-> getDeforestationSeverity(OrDefault(alertCount, Num(1))),
     confidence |-> OrDefault(confidence, Num(85))]

(* one alert of processFireAlertData: severity: alert.severity || 'medium', *)
(* confidence: alert.confidence || 75                                       *)
processFireAlert(severity, confidence) ==
    [type |-> "fire",
     severity |-> IF severity = "" THEN "medium" ELSE severity,
     confidence |-> OrDefault(confidence, Num(75))]

-----------------------------------------------------------------------------
(* The requests one route sends.  A request is answered with a status     *)
(* that is ok, with one that is not, or the fetch rejects.                  *)

FIRMS_DATASETS == <<"MODIS_NRT", "VIIRS_SNPP_NRT", "VIIRS_NOAA20_NRT">>

FetchOutcomes == {"ok", "notOk", "rejected"}

Sent(host, path) == [host |-> host, path |-> path]

(* the loop of getLiveFireAlerts over the datasets, from dataset i on: a   *)
(* status that is not ok goes on to the next dataset, a rejected fetch     *)
(* leaves the loop through the catch                                       *)
RECURSIVE Enhanced_FirmsLoop(_, _, _)
Enhanced_FirmsLoop(i, outcomes, sent) ==
    IF i > Len(FIRMS_DATASETS)
    THEN [ok |-> FALSE, requests |-> sent]
    ELSE LET requests == Append(sent, Sent("firms.modaps.eosdis.nasa.gov", FIRMS_DATASETS[i]))
         IN  IF outcomes[i] = "ok" THEN [ok |-> TRUE, requests |-> requests]
             ELSE IF outcomes[i] = "rejected" THEN [ok |-> FALSE, requests |-> requests]
             ELSE Enhanced_FirmsLoop(i + 1, outcomes, requests)

(* EnhancedForestDataService.getLiveFireAlerts *)
Enhanced_getLiveFireAlerts(hasKey, outcomes) ==
    IF ~hasKey THEN [ok |-> FALSE, requests |-> <<>>]
    ELSE Enhanced_FirmsLoop(1, outcomes, <<>>)

(* the loop of the Worker's handleFireAlerts: the try is inside the loop,  *)
(* so a rejected fetch goes on to the next dataset as well                 *)
RECURSIVE Worker_FirmsLoop(_, _, _, _)
Worker_FirmsLoop(i, datasets, outcomes, sent) ==
    IF i > Len(datasets)
    THEN [ok |-> FALSE, requests |-> sent]
    ELSE LET requests == Append(sent, Sent("firms.modaps.eosdis.nasa.gov", datasets[i]))
         IN  IF outcomes[i] = "ok" THEN [ok |-> TRUE, requests |-> requests]
             ELSE Worker_FirmsLoop(i + 1, datasets, outcomes, requests)

(* the requests of handleFireAlerts on a cache miss with a key *)
Worker_FirmsRequests(forcedDataset, outcomes) ==
    Worker_FirmsLoop(1, IF forcedDataset = "" THEN FIRMS_DATASETS ELSE <<forcedDataset>>,
                     outcomes, <<>>)

(* what Global Forest Watch answers to the GLAD request *)
GfwStatuses == {"200", "400", "404", "500", "rejected"}

(* EnhancedForestDataService.getLiveDeforestationAlerts: in a browser it    *)
(* throws before any request; elsewhere a 400 is followed by a request for  *)
(* the forest loss endpoint of the same host                                *)
Enhanced_getLiveDeforestationAlerts(inBrowser, status, altOutcome) ==
    LET glad == Sent("production-api.globalforestwatch.org", "glad-alerts")
        loss == Sent("production-api.globalforestwatch.org", "umd-loss-gain")
    IN  IF inBrowser THEN [ok |-> FALSE, requests |-> <<>>]
        ELSE IF status = "200" THEN [ok |-> TRUE, requests |-> <<glad>>]
        ELSE IF status = "400"
        THEN [ok |-> altOutcome = "ok", requests |-> <<glad, loss>>]
        ELSE [ok |-> FALSE, requests |-> <<glad>>]

-----------------------------------------------------------------------------
(* SpecCalc: the threshold functions, the record parsers and the request   *)
(* loops of the routes applied to what the upstream answers: the           *)
(* thresholds and their neighbours, out-of-range values, non-numeric        *)
(* fields and every combination of statuses.                               *)

Impls == {"enhanced", "worker"}

FrpValues == {NaN} \cup {Num(v) : v \in {5, 10, 11, 25, 26, 50, 51, 60}}

ConfidenceValues ==
    {NaN} \cup {Num(v) : v \in {-5, 0, 50, 60, 61, 70, 71, 80, 81, 85, 150}}

TempValues == {NaN} \cup {Num(v) : v \in {-10, 20, 30, 45, 400}}

HumidityValues == {NaN} \cup {Num(v) : v \in {-50, 0, 20, 100, 120}}

PrecipitationValues == {NaN} \cup {Num(v) : v \in {0, 10, 30, 50}}

AlertCounts == {NaN} \cup {Num(v) : v \in {0, 5, 11, 51, 101}}

(* the severity an upstream alert carries; "" when it carries none *)
UpstreamSeverities == {"", "low", "critical", "extreme", "High"}

CalcInit ==
    /\ now = 0
    /\ config = NoConfig
    /\ storage = NoStorage
    /\ cacheE = EmptyCache
    /\ cacheS = EmptyCache
    /\ last = [op |-> "none"]
    /\ written = NoHistory
    /\ worker = IdleWorker
    /\ calls = 0

CalculateFireSeverity ==
    \E impl \in Impls, frp \in FrpValues, confidence \in ConfidenceValues :
        /\ last' = [op |-> "calculateFireSeverity", impl |-> impl,
                    frp |-> frp, confidence |-> confidence,
                    result |-> IF impl = "enhanced"
                               THEN Enhanced_calculateFireSeverity(frp, confidence)
                               ELSE Worker_calculateFireSeverity(frp, confidence)]
        /\ UNCHANGED <<now, config, storage, cacheE, cacheS, written, worker, calls>>

CalculateFireWeatherIndex ==
    \E impl \in Impls, temp \in TempValues, humidity \in HumidityValues,
       precipitation \in PrecipitationValues :
        /\ last' = [op |-> "calculateFireWeatherIndex", impl |-> impl,
                    temp |-> temp, humidity |-> humidity,
                    precipitation |-> precipitation,
                    result |-> IF impl = "enhanced"
                               THEN Enhanced_calculateFireWeatherIndex(temp, humidity, precipitation)
                               ELSE Worker_calculateFireWeatherIndex(temp, humidity, precipitation)]
        /\ UNCHANGED <<now, config, storage, cacheE, cacheS, written, worker, calls>>

(* A parsed JSON payload handed to parseGladAlertsData: JSON null, an       *)
(* object without a data field, an object whose data is not an array, or   *)
(* an object whose data is an array of items.  An item is JSON null, an    *)
(* object without any of the expected fields, or a full alert.             *)
GladItems == {"null", "emptyObject", "alert"}

GladJsonPayloads ==
    {[kind |-> k, items |-> <<>>] : k \in {"null", "noData", "dataNotArray"}}
        \cup {[kind |-> "array", items |-> <<>>]}
        \cup {[kind |-> "array", items |-> <<a>>] : a \in GladItems}
        \cup {[kind |-> "array", items |-> <<a, b>>] : a \in GladItems, b \in GladItems}

(* data.data.slice(0, n): 10 in the client service, 15 in the edge function *)
GladImpls == {"enhanced", "edge"}

GladLimit(impl) == IF impl = "enhanced" THEN 10 ELSE 15

(* parseGladAlertsData: reading data.data of null raises a TypeError, and   *)
(* so does reading alert.date of a null item inside forEach.  A missing     *)
(* field reads as undefined and takes the || default.                      *)
parseGladAlertsData(impl, payload) ==
    IF payload.kind = "null" THEN [thrown |-> TRUE, alerts |-> <<>>]
    ELSE IF payload.kind # "array" THEN [thrown |-> FALSE, alerts |-> <<>>]
    ELSE LET taken == Slice(payload.items, GladLimit(impl))
         IN  IF \E i \in 1..Len(taken) : taken[i] = "null"
             THEN [thrown |-> TRUE, alerts |-> <<>>]
             ELSE [thrown |-> FALSE,
                   alerts |-> [i \in 1..Len(taken) |->
                                 IF taken[i] = "alert" THEN parseGladAlert(Num(5), Num(90))
                                 ELSE parseGladAlert(NaN, NaN)]]

(* A CSV text as its lines after split('\n'); the empty text is the single *)
(* blank line.  A line is blank, has fewer than 13 fields, or is a row.    *)
CsvLines == {"blank", "short", "row"}

CsvPayloads ==
    {<<"blank">>} \cup {<<"header">>}
        \cup {<<"header", a>> : a \in CsvLines}
        \cup {<<"header", a, b>> : a \in CsvLines, b \in CsvLines}

(* parseFireCsvData: skips the first line, reads at most 20 more, skips    *)
(* blank lines and lines with fewer than 13 fields                         *)
parseFireCsvData(lines) ==
    LET rows == SelectSeq(JsSlice(lines, 1, 21), LAMBDA l : l = "row")
    IN  [thrown |-> FALSE,
         alerts |-> [i \in 1..Len(rows) |-> parseFireRow("enhanced", Num(26), Num(71))]]

ParseGladPayload ==
    \E impl \in GladImpls, payload \in GladJsonPayloads :
        /\ last' = [op |-> "parseGladPayload", impl |-> impl, payload |-> payload,
                    result |-> parseGladAlertsData(impl, payload)]
        /\ UNCHANGED <<now, config, storage, cacheE, cacheS, written, worker, calls>>

ParseFireCsvPayload ==
    \E lines \in CsvPayloads :
        /\ last' = [op |-> "parseFireCsvPayload", lines |-> lines,
                    result |-> parseFireCsvData(lines)]
        /\ UNCHANGED <<now, config, storage, cacheE, cacheS, written, worker, calls>>

ParseFireCsvRow ==
    \E impl \in Impls, frp \in FrpValues, confidence \in ConfidenceValues :
        /\ last' = [op |-> "parseFireCsvData", impl |-> impl,
                    frp |-> frp, upstream |-> confidence,
                    record |-> parseFireRow(impl, frp, confidence)]
        /\ UNCHANGED <<now, config, storage, cacheE, cacheS, written, worker, calls>>

ParseGladAlert ==
    \E impl \in Impls, alertCount \in AlertCounts, confidence \in ConfidenceValues :
        /\ last' = [op |-> "parseGladAlertsData", impl |-> impl,
                    alertCount |-> alertCount, upstream |-> confidence,
                    record |-> parseGladAlert(alertCount, confidence)]
        /\ UNCHANGED <<now, config, storage, cacheE, cacheS, written, worker, calls>>

ProcessFireAlertData ==
    \E severity \in UpstreamSeverities, confidence \in ConfidenceValues :
        /\ last' = [op |-> "processFireAlertData", impl |-> "edge",
                    carried |-> severity, upstream |-> confidence,
                    record |-> processFireAlert(severity, confidence)]
        /\ UNCHANGED <<now, config, storage, cacheE, cacheS, written, worker, calls>>

GetLiveFireAlerts ==
    \E hasKey \in BOOLEAN, outcomes \in [1..3 -> FetchOutcomes] :
        /\ last' = [op |-> "getLiveFireAlerts", hasKey |-> hasKey, outcomes |-> outcomes,
                    route |-> Enhanced_getLiveFireAlerts(hasKey, outcomes)]
        /\ UNCHANGED <<now, config, storage, cacheE, cacheS, written, worker, calls>>

GetLiveDeforestationAlerts ==
    \E inBrowser \in BOOLEAN, status \in GfwStatuses, altOutcome \in FetchOutcomes :
        /\ last' = [op |-> "getLiveDeforestationAlerts", inBrowser |-> inBrowser,
                    status |-> status,
                    route |-> Enhanced_getLiveDeforestationAlerts(inBrowser, status, altOutcome)]
        /\ UNCHANGED <<now, config, storage, cacheE, cacheS, written, worker, calls>>

HandleFireAlertsRequests ==
    \E forcedDataset \in {"", "MODIS_NRT"}, outcomes \in [1..3 -> FetchOutcomes] :
        /\ last' = [op |-> "handleFireAlerts.fetch", dataset |-> forcedDataset,
                    outcomes |-> outcomes,
                    route |-> Worker_FirmsRequests(forcedDataset, outcomes)]
        /\ UNCHANGED <<now, config, storage, cacheE, cacheS, written, worker, calls>>

CalcNext ==
    \/ CalculateFireSeverity
    \/ GetLiveFireAlerts
    \/ GetLiveDeforestationAlerts
    \/ HandleFireAlertsRequests
    \/ CalculateFireWeatherIndex
    \/ ParseFireCsvRow
    \/ ParseGladAlert
    \/ ParseGladPayload
    \/ ParseFireCsvPayload
    \/ ProcessFireAlertData

SpecCalc == CalcInit /\ [][CalcNext]_vars

ParseOps == {"parseFireCsvData", "parseGladAlertsData", "processFireAlertData"}

(* C13: the severity of every parsed record is one of low, medium, high,  *)
(* critical, whatever the upstream alert carries.                          *)
C13_SeverityEnumerated ==
    last.op \in ParseOps => last.record.severity \in Levels

(* C14: the confidence of every parsed record is a number between 0 and   *)
(* 100, whatever the upstream field carries.                               *)
C14_ConfidenceClamped ==
    last.op \in ParseOps =>
        /\ ~last.record.confidence.nan
        /\ last.record.confidence.v \in 0..100

(* C15: calculateFireSeverity answers critical when frp > 50 and          *)
(* confidence > 80, else high when frp > 25 and confidence > 70, else      *)
(* medium when frp > 10 and confidence > 60, else low; (60, 85) is         *)
(* critical and (5, 50) is low.                                            *)
C15_FireSeverityThresholds ==
    last.op = "calculateFireSeverity" =>
        LET f == last.frp
            c == last.confidence
            isCritical == ~f.nan /\ ~c.nan /\ f.v > 50 /\ c.v > 80
            isHigh == ~f.nan /\ ~c.nan /\ f.v > 25 /\ c.v > 70
            isMedium == ~f.nan /\ ~c.nan /\ f.v > 10 /\ c.v > 60
        IN  /\ last.result = "critical" <=> isCritical
            /\ last.result = "high" <=> (~isCritical /\ isHigh)
            /\ last.result = "medium" <=> (~isCritical /\ ~isHigh /\ isMedium)
            /\ last.result = "low" <=> (~isCritical /\ ~isHigh /\ ~isMedium)
            /\ (f = Num(60) /\ c = Num(85)) => last.result = "critical"
            /\ (f = Num(5) /\ c = Num(50)) => last.result = "low"

(* a threshold itself is on the lower side: frp 50 with confidence 81 is   *)
(* high, not critical                                                      *)
C15_Witness ==
    /\ last.op = "calculateFireSeverity"
    /\ last.impl = "worker"
    /\ last.frp = Num(50)
    /\ last.confidence = Num(81)
    /\ last.result = "high"

(* C16: for numeric arguments calculateFireWeatherIndex equals            *)
(* min(100, (max(0, 100 - humidity) + max(0, temp - 20)                     *)
(* + max(0, 30 - precipitation)) / 3) and lies between 0 and 100; when an   *)
(* argument is NaN the result is NaN.                                       *)
C16_FireWeatherIndexFormula ==
    last.op = "calculateFireWeatherIndex" =>
        LET t == last.temp
            h == last.humidity
            p == last.precipitation
            numeric == ~t.nan /\ ~h.nan /\ ~p.nan
            sum == (IF 100 - h.v > 0 THEN 100 - h.v ELSE 0)
                   + (IF t.v - 20 > 0 THEN t.v - 20 ELSE 0)
                   + (IF 30 - p.v > 0 THEN 30 - p.v ELSE 0)
            mean == (sum * 100) \div 3
        IN  /\ numeric =>
                /\ ~last.result.nan
                /\ last.result.v = (IF mean < 10000 THEN mean ELSE 10000)
                /\ last.result.v \in 0..10000
            /\ ~numeric => last.result.nan

(* the cap acts: dryness 150 and heat 380 give a mean above 100 *)
C16_Witness ==
    /\ last.op = "calculateFireWeatherIndex"
    /\ last.temp = Num(400)
    /\ last.humidity = Num(-50)
    /\ last.precipitation = Num(0)
    /\ last.result = Num(10000)

(* C16 as stated: the index lies between 0 and 100 for all inputs.         *)
C16_BoundedForAllInputs ==
    last.op = "calculateFireWeatherIndex" =>
        /\ ~last.result.nan
        /\ last.result.v \in 0..10000

(* C17: calculateFireWeatherIndex(temp 30, humidity 20, precipitation 0)   *)
(* is 40.00: (80 + 10 + 30) / 3.                                            *)
C17_FireWeatherIndexExample ==
    (/\ last.op = "calculateFireWeatherIndex"
     /\ last.temp = Num(30)
     /\ last.humidity = Num(20)
     /\ last.precipitation = Num(0)) => last.result = Num(4000)

C17_Witness ==
    /\ last.op = "calculateFireWeatherIndex"
    /\ last.impl = "worker"
    /\ last.temp = Num(30)
    /\ last.humidity = Num(20)
    /\ last.precipitation = Num(0)
    /\ ~last.result.nan

(* C17 as stated: the same call returns 36.67 within 0.01.                 *)
C17_ExampleAsStated ==
    (/\ last.op = "calculateFireWeatherIndex"
     /\ last.temp = Num(30)
     /\ last.humidity = Num(20)
     /\ last.precipitation = Num(0)) =>
        /\ ~last.result.nan
        /\ last.result.v \in 3666..3668

-----------------------------------------------------------------------------
(* SpecConfig: the ApiConfigManager over localStorage.  The two stored     *)
(* values change by setNoMock, by the key form saving its keys, and by     *)
(* anything else that writes the origin's storage; the manager reloads by  *)
(* refreshApiKeys or as a fresh instance after a page load.                *)

(* what the flag entry can hold: nothing, what setNoMock writes, the other *)
(* spelling loadNoMockFlag accepts, and a value it does not know           *)
FlagValues == {"absent", "1", "0", "true", "yes"}

ConfigInit ==
    /\ now = 0
    /\ storage \in {[nasa_firms |-> FALSE, openweather |-> FALSE, malformed |-> m,
                     noMock |-> f] : m \in BOOLEAN, f \in {"absent", "yes"}}
    /\ config = LoadConfig(storage)
    /\ cacheE = EmptyCache
    /\ cacheS = EmptyCache
    /\ last = [op |-> "newInstance", flagSet |-> {}]
    /\ written = NoHistory
    /\ worker = IdleWorker
    /\ calls = 0

RefreshApiKeys ==
    /\ config' = refreshApiKeys(config, storage)
    /\ last' = [op |-> "refreshApiKeys", flagSet |-> FlagSet(last)]
    /\ UNCHANGED <<now, storage, cacheE, cacheS, written, worker, calls>>

(* a page load: a new manager whose constructor loads from storage *)
NewInstance ==
    /\ config' = LoadConfig(storage)
    /\ last' = [op |-> "newInstance", flagSet |-> FlagSet(last)]
    /\ UNCHANGED <<now, storage, cacheE, cacheS, written, worker, calls>>

(* the key form: setItem('forest-explorer-api-keys', JSON.stringify(...)) *)
SaveApiKeys ==
    \E nasa \in BOOLEAN, weather \in BOOLEAN :
        /\ storage' = [storage EXCEPT !.nasa_firms = nasa, !.openweather = weather,
                                      !.malformed = FALSE]
        /\ last' = [op |-> "saveApiKeys", flagSet |-> FlagSet(last)]
        /\ UNCHANGED <<now, config, cacheE, cacheS, written, worker, calls>>

(* another writer of the origin's storage leaves a keys entry that does    *)
(* not parse, or some flag value                                           *)
StorageEdit ==
    \/ /\ storage' = [storage EXCEPT !.nasa_firms = FALSE, !.openweather = FALSE,
                                      !.malformed = TRUE]
       /\ last' = [op |-> "storageEdit", flagSet |-> FlagSet(last)]
       /\ UNCHANGED <<now, config, cacheE, cacheS, written, worker, calls>>
    \/ \E f \in FlagValues :
        /\ storage' = [storage EXCEPT !.noMock = f]
        /\ last' = [op |-> "storageEdit", flagSet |-> {}]
        /\ UNCHANGED <<now, config, cacheE, cacheS, written, worker, calls>>

ConfigNext ==
    \/ SetNoMock
    \/ RefreshApiKeys
    \/ NewInstance
    \/ SaveApiKeys
    \/ StorageEdit

SpecConfig == ConfigInit /\ [][ConfigNext]_vars

ReloadOps == {"refreshApiKeys", "newInstance"}

C19_MalformedMeansAbsent ==
    last.op \in ReloadOps =>
        /\ storage.malformed =>
              /\ ~hasApiKey(config, "nasa_firms")
              /\ ~hasApiKey(config, "openweather")
              /\ ~shouldUseLiveData(config)
        /\ storage.noMock = "yes" => ~isNoMockEnabled(config)

-----------------------------------------------------------------------------
(* SpecRace: the requests of ServerSideDataService and of getWeatherData    *)
(* event by event.  A request is a fetch raced against a timer, or a bare   *)
(* fetch; its response arrives at some time or never, before or after the  *)
(* timer of its race and those of the other races.  The continuation of    *)
(* the operation runs when every race has settled.  In this specification the variable worker holds the operation  *)
(* in progress and its requests, and the clock of the caches stands still.  *)

(* setTimeout(..., 10000) of getForestRegions, in seconds *)
REGIONS_TIMEOUT == 10

(* createTimeoutPromise(8000) of getForestAlerts, in seconds *)
ALERTS_TIMEOUT == 8

(* a fetch that is awaited without a timer *)
NoTimeout == 0

(* a settled promise keeps its first settlement *)
Promise_race_LastWins(settled, by) == by

Promise_race(settled, by) == IF settled = "pending" THEN by ELSE settled

Race(name, timeout) ==
    [name |-> name, timeout |-> timeout, resp |-> Reject,
     timer |-> IF timeout = NoTimeout THEN "none" ELSE "armed",
     response |-> "pending", outcome |-> "pending", late |-> FALSE]

RaceIdle == [pc |-> "idle", op |-> "none", races |-> <<>>, late |-> {}]

AllSettled(races) == \A i \in DOMAIN races : races[i].outcome # "pending"

(* what the continuation sees of a race: its response, or the rejection of  *)
(* the timer                                                                *)
Seen(r) == IF r.outcome = "response" THEN r.resp ELSE Reject

(* the requests still without a response when the operation has completed *)
StillInFlight(races) ==
    {races[i].name : i \in {j \in DOMAIN races : races[j].response = "pending"}}

RaceKey(op) ==
    CASE op = "getForestRegions" -> "forest_regions_server"
      [] op = "getForestAlerts" -> "forest_alerts_server"
      [] op = "getDeforestationAlerts" -> "deforestation_server"
      [] OTHER -> WeatherKey("amazon")

(* the continuation of the operation once its races have settled *)
RaceResult(op, cE, cS, cfg, t, races) ==
    CASE op = "getForestRegions" ->
            Server_getForestRegions(cS, cfg.noMock, t, Seen(races[1]))
      [] op = "getForestAlerts" ->
            Server_getForestAlerts(cS, cfg.noMock, t, Seen(races[1]), Seen(races[2]))
      [] op = "getDeforestationAlerts" ->
            Server_getDeforestationAlerts(cS, cfg.noMock, t, Seen(races[1]))
      [] OTHER ->
            Enhanced_getWeatherData(cE, cfg, t, "amazon",
                                    Seen(races[1]).kind = "json" /\ Seen(races[1]).success)

(* the upstream answers of this specification: failures and answers made  *)
(* of upstream data, which no fallback of the client produces               *)
RaceFireResponses(noMockParam, t) ==
    {r \in WorkerFireResponses(noMockParam, t) : ~HasMock(r.data)}

RaceDeforestationResponses(noMockParam, t) ==
    {r \in WorkerDeforestationResponses(noMockParam, t) : ~HasMock(r.data)}

RaceWeatherResponses ==
    {Reject, Json(TRUE, FALSE, <<Weather("amazon", "live")>>, "openweather")}

RaceOps == {"getForestRegions", "getForestAlerts", "getDeforestationAlerts", "getWeatherData"}

NeedsRequest(r) ==
    \E i \in DOMAIN r.attempts : r.attempts[i].route \in {"Proxy", "Direct"}

Completed(op, r, races) ==
    [op |-> op, outcome |-> r.outcome, data |-> r.data, path |-> r.path,
     races |-> races, noMock |-> config.noMock]

(* the operation up to its await: the cache lookup, and the requests sent  *)
(* on a miss                                                                *)
Begin(op, races) ==
    LET r == RaceResult(op, cacheE, cacheS, config, now, races)
    IN  /\ calls < MaxCalls
        /\ calls' = calls + 1
        /\ IF NeedsRequest(r)
           THEN /\ worker' = [worker EXCEPT !.pc = "waiting", !.op = op,
                                            !.races = races]
                /\ UNCHANGED last
           ELSE /\ last' = Completed(op, r, <<>>)
                /\ UNCHANGED worker
        /\ UNCHANGED <<now, config, storage, cacheE, cacheS, written>>

StartGetForestRegions ==
    /\ worker.pc = "idle"
    /\ Begin("getForestRegions", <<Race("regions", REGIONS_TIMEOUT)>>)

StartGetForestAlerts ==
    /\ worker.pc = "idle"
    /\ Begin("getForestAlerts",
             <<Race("fire", ALERTS_TIMEOUT), Race("deforestation", ALERTS_TIMEOUT)>>)

StartGetDeforestationAlerts ==
    /\ worker.pc = "idle"
    /\ Begin("getDeforestationAlerts", <<Race("deforestation", NoTimeout)>>)

StartGetWeatherData ==
    /\ worker.pc = "idle"
    /\ Begin("getWeatherData", <<Race("weather", NoTimeout)>>)

(* what the upstream of a request can answer *)
Responses(name) ==
    CASE name = "regions" -> WorkerRegionResponses
      [] name = "fire" -> RaceFireResponses(config.noMock, now)
      [] name = "deforestation" -> RaceDeforestationResponses(config.noMock, now)
      [] OTHER -> RaceWeatherResponses

(* after an event: the continuation runs once every race has settled *)
Continue(races) ==
    IF AllSettled(races)
    THEN LET r == RaceResult(worker.op, cacheE, cacheS, config, now, races)
         IN  /\ worker' = [RaceIdle EXCEPT !.late = worker.late \cup StillInFlight(races)]
             /\ last' = Completed(worker.op, r, races)
             /\ IF worker.op = "getWeatherData"
                THEN cacheE' = r.cache /\ UNCHANGED cacheS
                ELSE cacheS' = r.cache /\ UNCHANGED cacheE
    ELSE /\ worker' = [worker EXCEPT !.races = races]
         /\ UNCHANGED <<last, cacheE, cacheS>>

(* the timer of a race fires *)
TimerFires ==
    /\ worker.pc = "waiting"
    /\ \E i \in DOMAIN worker.races :
        LET r == worker.races[i]
        IN  /\ r.timer = "armed"
            /\ Continue([worker.races EXCEPT
                            ![i].timer = "fired",
                            ![i].outcome = Promise_race(r.outcome, "timeout")])
    /\ UNCHANGED <<now, config, storage, written, calls>>

(* the response of a request arrives while the operation is waiting *)
ResponseArrives ==
    /\ worker.pc = "waiting"
    /\ \E i \in DOMAIN worker.races :
        LET r == worker.races[i]
        IN  /\ r.response = "pending"
            /\ \E resp \in Responses(r.name) :
                  Continue([worker.races EXCEPT
                              ![i].response = "arrived",
                              ![i].resp = resp,
                              ![i].late = (r.timer = "fired"),
                              ![i].outcome = Promise_race(r.outcome, "response")])
    /\ UNCHANGED <<now, config, storage, written, calls>>

(* a response arrives after its operation has completed: nobody awaits it *)
LateResponseArrives ==
    /\ \E name \in worker.late :
          worker' = [worker EXCEPT !.late = @ \ {name}]
    /\ UNCHANGED <<now, config, storage, cacheE, cacheS, last, written, calls>>

RaceInit ==
    /\ now = 0
    /\ \E key \in BOOLEAN, flag \in {"absent", "1"} :
          storage = [nasa_firms |-> FALSE, openweather |-> key, malformed |-> FALSE,
                     noMock |-> flag]
    /\ config = LoadConfig(storage)
    /\ cacheE = EmptyCache
    /\ cacheS = EmptyCache
    /\ last = [op |-> "none"]
    /\ written = NoHistory
    /\ worker = RaceIdle
    /\ calls = 0

RaceNext ==
    \/ StartGetForestRegions
    \/ StartGetForestAlerts
    \/ StartGetDeforestationAlerts
    \/ StartGetWeatherData
    \/ TimerFires
    \/ ResponseArrives
    \/ LateResponseArrives

SpecRace == RaceInit /\ [][RaceNext]_vars

(* C21: every request a resolution is waiting for is raced against a timer *)
(* of less than 10 seconds.                                                *)
C21_AttemptsBounded ==
    worker.pc = "waiting" =>
        \A i \in DOMAIN worker.races : worker.races[i].timeout \in 1..9

Elements(seq) == {seq[i] : i \in DOMAIN seq}

(* C27: in ServerSideDataService.getForestRegions and getForestAlerts the  *)
(* response of a request that arrives after the timer of its race has      *)
(* fired is in no result returned to the caller and in no cache entry.     *)
C27_LateResponseDiscarded ==
    last.op \in {"getForestRegions", "getForestAlerts"} =>
        \A i \in DOMAIN last.races :
            last.races[i].late =>
                /\ Elements(last.races[i].resp.data) \cap Elements(last.data) = {}
                /\ RaceKey(last.op) \in DOMAIN cacheS =>
                      Elements(last.races[i].resp.data)
                          \cap Elements(cacheS[RaceKey(last.op)].data) = {}

(* the fire response came with data after its timer, and the operation     *)
(* returned the deforestation alerts it got in time                        *)
C27_Witness ==
    /\ last.op = "getForestAlerts"
    /\ last.races[1].late
    /\ last.races[1].resp.data # <<>>
    /\ last.races[2].outcome = "response"
    /\ last.path = "fresh"

RouteOps == {"getLiveFireAlerts", "getLiveDeforestationAlerts", "handleFireAlerts.fetch"}

(* C22: within one resolution a route sends at most one request to its     *)
(* upstream: a failed request is not followed by another one to the same   *)
(* host.                                                                    *)
C22_OneRequestPerRoute ==
    last.op \in RouteOps =>
        \A i \in DOMAIN last.route.requests, j \in DOMAIN last.route.requests :
            last.route.requests[i].host = last.route.requests[j].host => i = j

(* C23: after a resolution that obtained its result from an upstream, the *)
(* result is in a cache of the services.                                   *)
C23_SuccessIsCached ==
    (last.op \in ResolutionOps /\ last.outcome = "return" /\ last.path = "fresh") =>
        \/ \E k \in DOMAIN cacheE : cacheE[k].data = last.data
        \/ \E k \in DOMAIN cacheS : cacheS[k].data = last.data

(* C24: in a browser no attempt for fire or deforestation alerts goes to   *)
(* the upstream directly, whatever keys are configured.                    *)
C24_NoDirectCallInBrowser ==
    last.op = "getForestAlerts" =>
        \A i \in DOMAIN last.attempts :
            last.attempts[i].category \in {"fire", "deforestation"} =>
                last.attempts[i].route # "Direct"

PayloadOps == {"parseGladPayload", "parseFireCsvPayload"}

C26_ParsersTotal ==
    last.op \in PayloadOps =>
        /\ ~last.result.thrown
        /\ (last.op = "parseGladPayload" /\ last.payload.kind # "array")
               => last.result.alerts = <<>>
        /\ (last.op = "parseFireCsvPayload" /\ Len(last.lines) <= 1)
               => last.result.alerts = <<>>


(* C28: the Worker serves a cached /fire-alerts response only to a request *)
(* whose effective parameters equal those of the request that populated    *)
(* the entry.  The response with source "mock" is stored only by a request *)
(* without any credential, so a request that carries a credential (an      *)
(* override key or the configured one) is never answered with it from the  *)
(* cache.                                                                  *)
C28_CacheServedToSameParameters ==
    (last.op = "handleFireAlerts" /\ last.fromCache /\ last.hasKey) =>
        last.response.source # "mock"


-----------------------------------------------------------------------------
(* SpecForest: ForestDataService.getForestAlerts with the NASAGibsService   *)
(* it calls.  Both services keep their own TTL cache; worker holds them     *)
(* together with the list the last populating call returned.               *)

(* fireAreas: Amazon, Congo, Boreal *)
FireAreas == <<"fires_-3_-4_-61_-63", "fires_1_-1_16_15", "fires_65_63_-152_-155">>

(* NASAGibsService.getMockFireData: one detection *)
getMockFireData(area) == <<[area |-> area, frp |-> 153, confidence |-> 85]>>

(* NASAGibsService.getFireData: the cached detections, else the mock ones, *)
(* which it caches                                                         *)
getFireData(gibs, area, t) ==
    LET cached == getCachedData(gibs, area, SATELLITE_DATA, t)
    IN  IF cached.hit THEN [data |-> cached.data, gibs |-> gibs]
        ELSE [data |-> getMockFireData(area),
              gibs |-> setCachedData(gibs, area, getMockFireData(area), SATELLITE_DATA, t)]

(* the for loop over fireAreas: one alert per detection, stamped now *)
RECURSIVE Forest_FireLoop(_, _, _, _)
Forest_FireLoop(i, gibs, alerts, t) ==
    IF i > Len(FireAreas) THEN [alerts |-> alerts, gibs |-> gibs]
    ELSE LET r == getFireData(gibs, FireAreas[i], t)
         IN  Forest_FireLoop(i + 1, r.gibs,
                             alerts \o [k \in 1..Len(r.data) |-> Alert("fire", t, "mock")], t)

Forest_getMockDeforestationAlerts(t) == <<Alert("deforestation", t, "mock")>>

FOREST_ALERT_LIMIT == 20

(* a variant that keeps three alerts *)
Forest_limitAlerts_Three(alerts) == Slice(alerts, 3)

(* alerts.slice(0, 20) *)
Forest_limitAlerts(alerts) == Slice(alerts, FOREST_ALERT_LIMIT)

(* ForestDataService.getForestAlerts: a valid entry is returned as stored; *)
(* otherwise the full list is stored and its first 20 alerts are returned  *)
Forest_getForestAlerts(cache, gibs, t) ==
    LET key == "forest_alerts_live"
        cached == getCachedData(cache, key, FOREST_DATA, t)
        fires == Forest_FireLoop(1, gibs, <<>>, t)
        alerts == fires.alerts \o Forest_getMockDeforestationAlerts(t)
    IN  IF cached.hit
        THEN [data |-> cached.data, cache |-> cache, gibs |-> gibs, fromCache |-> TRUE]
        ELSE [data |-> Forest_limitAlerts(alerts),
              cache |-> setCachedData(cache, key, alerts, FOREST_DATA, t),
              gibs |-> fires.gibs, fromCache |-> FALSE]

ForestIdle == [cache |-> EmptyCache, gibs |-> EmptyCache, populated |-> <<>>]

ForestWaits == {SATELLITE_DATA, FOREST_DATA \div 2}

MaxForestTime == FOREST_DATA + SATELLITE_DATA

ForestInit ==
    /\ now = 0
    /\ storage = NoStorage
    /\ config = NoConfig
    /\ cacheE = EmptyCache
    /\ cacheS = EmptyCache
    /\ last = [op |-> "none"]
    /\ written = NoHistory
    /\ worker = ForestIdle
    /\ calls = 0

ForestGetForestAlerts ==
    LET r == Forest_getForestAlerts(worker.cache, worker.gibs, now)
    IN  /\ calls < MaxCalls
        /\ calls' = calls + 1
        /\ worker' = [cache |-> r.cache, gibs |-> r.gibs,
                      populated |-> IF r.fromCache THEN worker.populated ELSE r.data]
        /\ last' = [op |-> "Forest.getForestAlerts", data |-> r.data,
                    fromCache |-> r.fromCache]
        /\ UNCHANGED <<now, config, storage, cacheE, cacheS, written>>

(* NASAGibsService.getFireData called by another consumer *)
ForestGetFireData ==
    \E i \in 1..Len(FireAreas) :
        LET r == getFireData(worker.gibs, FireAreas[i], now)
        IN  /\ calls < MaxCalls
            /\ calls' = calls + 1
            /\ worker' = [worker EXCEPT !.gibs = r.gibs]
            /\ last' = [op |-> "getFireData", data |-> r.data, fromCache |-> FALSE]
            /\ UNCHANGED <<now, config, storage, cacheE, cacheS, written>>

ForestElapse ==
    \E d \in ForestWaits :
        /\ now + d <= MaxForestTime
        /\ now' = now + d
        /\ UNCHANGED <<config, storage, cacheE, cacheS, last, written, worker, calls>>

ForestNext == ForestGetForestAlerts \/ ForestGetFireData \/ ForestElapse

SpecForest == ForestInit /\ [][ForestNext]_vars

(* C29: ForestDataService.getForestAlerts returns on a cache hit the same  *)
(* list the populating call returned, and that list holds at most 20       *)
(* alerts.                                                                 *)
C29_HitReturnsPopulatedList ==
    (last.op = "Forest.getForestAlerts" /\ last.fromCache) =>
        /\ last.data = worker.populated
        /\ Len(last.data) <= FOREST_ALERT_LIMIT

(* a hit, later than the populating call, on a list that holds alerts *)
C29_Witness ==
    /\ last.op = "Forest.getForestAlerts"
    /\ last.fromCache
    /\ last.data # <<>>
    /\ worker.cache["forest_alerts_live"].timestamp < now


-----------------------------------------------------------------------------
(* SpecApp: the notifications of the App component.  worker holds the two   *)
(* pieces of React state, notifications and unreadCount.                    *)

AppIdle == [notifications |-> <<>>, unreadCount |-> 0]

Unread(notifications) ==
    Cardinality({i \in 1..Len(notifications) : ~notifications[i].read})

(* read: Math.random() > 0.7, drawn per alert; the patterns enumerated fix  *)
(* the draw of the first alert and the draw of all later ones               *)
ReadPatterns == [first : BOOLEAN, rest : BOOLEAN]

(* alerts.map(alert => ({id: alert.id, ..., read: Math.random() > 0.7})) *)
ToNotifications(alerts, pattern) ==
    [i \in 1..Len(alerts) |->
        [id |-> i, type |-> alerts[i].type,
         read |-> IF i = 1 THEN pattern.first ELSE pattern.rest]]

(* the ids a click or a caller can pass: of the first two notifications,   *)
(* and one that no notification carries                                    *)
MarkIds == {0, 1, 2}

(* no NASA key is configured in this specification, so FIRMS is never     *)
(* requested directly                                                      *)
NoDirectRequest == [ok |-> FALSE, rows |-> 0]

AppInit ==
    /\ now = 0
    /\ storage = NoStorage
    /\ config = NoConfig
    /\ cacheE = EmptyCache
    /\ cacheS = EmptyCache
    /\ last = [op |-> "none"]
    /\ written = NoHistory
    /\ worker = AppIdle
    /\ calls = 0

(* loadNotifications: the alerts of enhancedForestDataService become the   *)
(* notifications, unreadCount is counted from them; an error is logged     *)
(* and leaves both as they were                                            *)
LoadNotifications ==
    /\ calls < MaxCalls
    /\ calls' = calls + 1
    /\ \E health \in BOOLEAN,
          fireResp \in WorkerFireResponses(config.noMock, now),
          defResp \in WorkerDeforestationResponses(config.noMock, now),
          pattern \in ReadPatterns :
        LET r == Enhanced_getForestAlerts(cacheE, cacheS, config, now, health,
                                          NoDirectRequest, fireResp, defResp)
            notifications == ToNotifications(r.data, pattern)
        IN  /\ cacheE' = r.cacheE
            /\ cacheS' = r.cacheS
            /\ worker' = IF r.outcome = "throw" THEN worker
                         ELSE [notifications |-> notifications,
                               unreadCount |-> Unread(notifications)]
            /\ last' = [op |-> "loadNotifications", id |-> 0,
                        wasUnread |-> FALSE, thrown |-> r.outcome = "throw"]
    /\ UNCHANGED <<now, config, storage, written>>

(* markNotificationAsRead(id): the notification with that id becomes read, *)
(* unreadCount becomes Math.max(0, unreadCount - 1)                        *)
MarkNotificationAsRead ==
    \E id \in MarkIds :
        /\ worker' = [notifications |->
                          [i \in 1..Len(worker.notifications) |->
                              IF worker.notifications[i].id = id
                              THEN [worker.notifications[i] EXCEPT !.read = TRUE]
                              ELSE worker.notifications[i]],
                      unreadCount |-> Max(0, worker.unreadCount - 1)]
        /\ last' = [op |-> "markNotificationAsRead", id |-> id,
                    wasUnread |-> \E i \in 1..Len(worker.notifications) :
                                      /\ worker.notifications[i].id = id
                                      /\ ~worker.notifications[i].read,
                    thrown |-> FALSE]
        /\ UNCHANGED <<now, config, storage, cacheE, cacheS, written, calls>>

(* markAllAsRead *)
MarkAllAsRead ==
    /\ worker' = [notifications |->
                      [i \in 1..Len(worker.notifications) |->
                          [worker.notifications[i] EXCEPT !.read = TRUE]],
                  unreadCount |-> 0]
    /\ last' = [op |-> "markAllAsRead", id |-> 0, wasUnread |-> FALSE, thrown |-> FALSE]
    /\ UNCHANGED <<now, config, storage, cacheE, cacheS, written, calls>>

AppNext == LoadNotifications \/ MarkNotificationAsRead \/ MarkAllAsRead

SpecApp == AppInit /\ [][AppNext]_vars

(* C30: after any sequence of loadNotifications, markNotificationAsRead    *)
(* (also with the id of a read notification or an unknown id) and          *)
(* markAllAsRead, unreadCount equals the number of notifications whose     *)
(* read flag is false.                                                     *)
C30_UnreadCountMatches == worker.unreadCount = Unread(worker.notifications)

=============================================================================
